---- MODULE Spec2Model ----
(***************************************************************************)
(* Lingo-Voice (src/app.py): a Streamlit page that loads an NLLB tokenizer *)
(* and model, translates the text of a text area between two selected      *)
(* languages and keeps the exchanges of the session in a list.             *)
(*                                                                         *)
(* Streamlit runs the script top to bottom once per user interaction; at   *)
(* most one button is pressed in a run.  One action below is one script    *)
(* run with one button pressed.  The values of the two select boxes and of *)
(* the text area at the time of the click are the inputs of the action.    *)
(***************************************************************************)
EXTENDS Naturals, Sequences, FiniteSets

VARIABLES
    messages,      \* st.session_state.messages
    model_loaded,  \* st.session_state.model_loaded
    tokenizer,     \* st.session_state.tokenizer
    model,         \* st.session_state.model
    src_lang,      \* the src_lang attribute of the session's tokenizer object
    cache,         \* the entry st.cache_resource keeps for load_model()
    last,          \* the button of the last script run and what the run showed
    req,           \* the widget values the last Translate run read
    gen            \* the generation call the last script run made, if any

vars == <<messages, model_loaded, tokenizer, model, src_lang, cache, last, req, gen>>

\* The loaded flag and the backend handle with its state.
backend == <<model_loaded, tokenizer, model, src_lang>>

----------------------------------------------------------------------------
(* Bounds of the model *)

\* Longest history the model lets a translation build.
MaxHistory == 2

\* Values of the text area: empty, whitespace-only, plain, and a text with
\* leading, inner and trailing whitespace.
Texts ==
    { <<>>, <<" ", "\n">>, <<"a">>, <<" ", "a", " ", "b", " ">> }

\* Strings batch_decode(...)[0] may yield (skip_special_tokens=True leaves
\* the empty string when the model emits only special tokens).
GenStrings == { <<>>, <<"x">> }

\* Names handed to translate_text by a direct caller that are not keys of
\* LANGUAGES.
UnknownNames == { "Klingon", "english", "" }

----------------------------------------------------------------------------
(* Python values *)

None == "None"

\* An optional string: Python's None or a str.
PyNone == [none |-> TRUE, val |-> <<>>]
Some(s) == [none |-> FALSE, val |-> s]

\* bool(v) for v a str or None.
Truthy(v) == ~v.none /\ Len(v.val) > 0

\* bool(h) for h a tokenizer/model object or None.
HandleTruthy(h) == h # None

Whitespace == { " ", "\n", "\t" }

RECURSIVE lstrip(_)
lstrip(s) ==
    IF s = <<>> THEN <<>>
    ELSE IF Head(s) \in Whitespace THEN lstrip(Tail(s)) ELSE s

RECURSIVE rstrip(_)
rstrip(s) ==
    IF s = <<>> THEN <<>>
    ELSE IF s[Len(s)] \in Whitespace THEN rstrip(SubSeq(s, 1, Len(s) - 1)) ELSE s

\* str.strip()
strip(s) == rstrip(lstrip(s))

----------------------------------------------------------------------------
(* Language mapping *)

LANGUAGES ==
    << <<"English", "eng_Latn">>,
       <<"Spanish", "spa_Latn">>,
       <<"French", "fra_Latn">>,
       <<"German", "deu_Latn">>,
       <<"Chinese (Simplified)", "zho_Hans">>,
       <<"Chinese (Traditional)", "zho_Hant">>,
       <<"Japanese", "jpn_Jpan">>,
       <<"Korean", "kor_Hang">>,
       <<"Arabic", "arb_Arab">>,
       <<"Hindi", "hin_Deva">>,
       <<"Portuguese", "por_Latn">>,
       <<"Russian", "rus_Cyrl">>,
       <<"Italian", "ita_Latn">>,
       <<"Dutch", "nld_Latn">>,
       <<"Turkish", "tur_Latn">>,
       <<"Vietnamese", "vie_Latn">>,
       <<"Thai", "tha_Thai">>,
       <<"Polish", "pol_Latn">>,
       <<"Swedish", "swe_Latn">>,
       <<"Norwegian", "nno_Latn">> >>

\* list(LANGUAGES.keys())
LanguageKeys == [i \in 1..Len(LANGUAGES) |-> LANGUAGES[i][1]]

RECURSIVE DictGetFrom(_, _, _)
DictGetFrom(i, key, default) ==
    IF i > Len(LANGUAGES) THEN default
    ELSE IF LANGUAGES[i][1] = key THEN LANGUAGES[i][2]
    ELSE DictGetFrom(i + 1, key, default)

\* A lookup that hands back the key itself when it is not registered.
LanguagesGetPassThrough(key, default) == DictGetFrom(1, key, key)

\* LANGUAGES.get(key, default)
LanguagesGet(key, default) == DictGetFrom(1, key, default)

\* The options of the two select boxes the model lets the user pick.
LangChoices == { LanguageKeys[1], LanguageKeys[3] }

----------------------------------------------------------------------------
(* load_model and its cache *)

\* What the external loader can deliver when the button is pressed: whether
\* AutoTokenizer.from_pretrained and AutoModelForSeq2SeqLM.from_pretrained
\* return or raise.
LoaderStates == [tokOK : BOOLEAN, mdlOK : BOOLEAN]

\* The attribute a freshly built tokenizer starts with (the library's choice).
FreshSrcLang == "tokenizer default"
NoSrcLang == "unset"

\* The body of load_model(): both objects, or (None, None) when either
\* from_pretrained raises.
load_model_body(ld) ==
    IF ld.tokOK /\ ld.mdlOK THEN <<"tokenizer", "model">> ELSE <<None, None>>

NoEntry == [hit |-> FALSE, value |-> <<None, None>>]

\* load_model() under @st.cache_resource: the body runs on a miss and its
\* return value, whatever it is, becomes the entry; a hit returns the entry.
load_model(c, ld) ==
    IF c.hit
    THEN [value |-> c.value, ran |-> FALSE, cache |-> c]
    ELSE [value |-> load_model_body(ld), ran |-> TRUE,
          cache |-> [hit |-> TRUE, value |-> load_model_body(ld)]]

\* A handler that stores whatever load_model returned.
LoadStoreAlways(pair, ran, tok, mdl, loaded, sl) ==
    [tokenizer |-> pair[1], model |-> pair[2],
     model_loaded |-> (loaded \/ (HandleTruthy(pair[1]) /\ HandleTruthy(pair[2]))),
     src_lang |-> IF ran THEN FreshSrcLang ELSE sl,
     shown |-> IF HandleTruthy(pair[1]) /\ HandleTruthy(pair[2])
               THEN "loaded" ELSE "load_failed"]

\* A handler that sets the flag whatever load_model returned.
LoadStoreFlagFirst(pair, ran, tok, mdl, loaded, sl) ==
    IF HandleTruthy(pair[1]) /\ HandleTruthy(pair[2])
    THEN [tokenizer |-> pair[1], model |-> pair[2], model_loaded |-> TRUE,
          src_lang |-> IF ran THEN FreshSrcLang ELSE sl, shown |-> "loaded"]
    ELSE [tokenizer |-> tok, model |-> mdl, model_loaded |-> TRUE,
          src_lang |-> sl, shown |-> "load_failed"]

\* The Load Model handler after the call: "if tokenizer and model:".
\* A hit hands back the objects the session already holds, a miss new ones.
LoadStore(pair, ran, tok, mdl, loaded, sl) ==
    IF HandleTruthy(pair[1]) /\ HandleTruthy(pair[2])
    THEN [tokenizer |-> pair[1], model |-> pair[2], model_loaded |-> TRUE,
          src_lang |-> IF ran THEN FreshSrcLang ELSE sl, shown |-> "loaded"]
    ELSE [tokenizer |-> tok, model |-> mdl, model_loaded |-> loaded,
          src_lang |-> sl, shown |-> "load_failed"]

----------------------------------------------------------------------------
(* translate_text *)

\* What tokenizer(...), model.generate(...) and batch_decode(...)[0] do for
\* one call: raise, or return a string.
GenOutcomes ==
    { [raised |-> TRUE, value |-> <<>>] }
        \cup { [raised |-> FALSE, value |-> v] : v \in GenStrings }

NoGen ==
    [calls |-> 0, text |-> <<>>, src_lang |-> "", forced_bos |-> "",
     tokenizer |-> None, model |-> None, raised |-> FALSE, value |-> <<>>]

NoReq == [text |-> <<>>, source |-> "", target |-> ""]

DefaultSource == "eng_Latn"
DefaultTarget == "spa_Latn"

\* A translate_text whose except branch hands back the error message.
translate_text_error_string(text, source_lang, target_lang, tok, mdl, sl, out) ==
    LET source_lang_code == LanguagesGet(source_lang, DefaultSource)
        target_lang_code == LanguagesGet(target_lang, DefaultTarget)
        raises == tok = None \/ mdl = None \/ out.raised
    IN  [ret |-> IF raises THEN Some(<<"e">>) ELSE Some(out.value),
         error |-> raises,
         src_lang |-> IF tok = None THEN sl ELSE source_lang_code,
         gen |-> [calls |-> 1, text |-> text, src_lang |-> source_lang_code,
                  forced_bos |-> target_lang_code, tokenizer |-> tok,
                  model |-> mdl, raised |-> raises, value |-> out.value]]

\* translate_text(text, source_lang, target_lang, tokenizer, model): one
\* generation call; any exception is shown and None returned.  With a None
\* tokenizer the attribute assignment already raises.
translate_text(text, source_lang, target_lang, tok, mdl, sl, out) ==
    LET source_lang_code == LanguagesGet(source_lang, DefaultSource)
        target_lang_code == LanguagesGet(target_lang, DefaultTarget)
        raises == tok = None \/ mdl = None \/ out.raised
    IN  [ret |-> IF raises THEN PyNone ELSE Some(out.value),
         error |-> raises,
         src_lang |-> IF tok = None THEN sl ELSE source_lang_code,
         gen |-> [calls |-> 1, text |-> text, src_lang |-> source_lang_code,
                  forced_bos |-> target_lang_code, tokenizer |-> tok,
                  model |-> mdl, raised |-> raises, value |-> out.value]]

----------------------------------------------------------------------------
(* The Translate handler *)

\* A handler without the model_loaded test.
TranslateBranchNoLoadedTest(loaded, user_input) ==
    IF ~(Len(strip(user_input)) > 0) THEN "empty_input" ELSE "call"

\* A handler that tests the text without strip().
TranslateBranchNoStrip(loaded, user_input) ==
    IF ~loaded THEN "not_ready"
    ELSE IF ~(Len(user_input) > 0) THEN "empty_input"
    ELSE "call"

\* if not model_loaded / elif not user_input.strip() / else
TranslateBranch(loaded, user_input) ==
    IF ~loaded THEN "not_ready"
    ELSE IF ~(Len(strip(user_input)) > 0) THEN "empty_input"
    ELSE "call"

\* An append at the front of the list.
StoreExchangeFront(msgs, source_lang, target_lang, user_input, translation) ==
    <<[source |-> source_lang, target |-> target_lang,
       original |-> user_input, translation |-> translation]>> \o msgs

\* st.session_state.messages.append({...})
StoreExchange(msgs, source_lang, target_lang, user_input, translation) ==
    Append(msgs, [source |-> source_lang, target |-> target_lang,
                  original |-> user_input, translation |-> translation])

\* A clear that drops only the oldest exchange.
ClearedMessagesOldest == IF messages = <<>> THEN <<>> ELSE Tail(messages)

\* st.session_state.messages = []
ClearedMessages == <<>>

Shown(op, outcome, ld, ran) ==
    [op |-> op, outcome |-> outcome, loaderOK |-> ld.tokOK /\ ld.mdlOK,
     loaderRan |-> ran]

NoLoader == [tokOK |-> FALSE, mdlOK |-> FALSE]

----------------------------------------------------------------------------
(* The session *)

Init ==
    /\ messages = <<>>
    /\ model_loaded = FALSE
    /\ tokenizer = None
    /\ model = None
    /\ src_lang = NoSrcLang
    /\ cache = NoEntry
    /\ last = Shown("start", "none", NoLoader, FALSE)
    /\ req = NoReq
    /\ gen = NoGen

\* A script run with the Load Model button pressed.
Load ==
    \E ld \in LoaderStates :
        LET r == load_model(cache, ld)
            s == LoadStore(r.value, r.ran, tokenizer, model, model_loaded, src_lang)
        IN  /\ cache' = r.cache
            /\ tokenizer' = s.tokenizer
            /\ model' = s.model
            /\ model_loaded' = s.model_loaded
            /\ src_lang' = s.src_lang
            /\ last' = Shown("load", s.shown, ld, r.ran)
            /\ req' = NoReq
            /\ gen' = NoGen
            /\ UNCHANGED messages

\* A script run with the Clear Chat History button pressed; st.rerun() then
\* runs the script again with no button pressed.
Clear ==
    /\ messages' = ClearedMessages
    /\ last' = Shown("clear", "none", NoLoader, FALSE)
    /\ req' = NoReq
    /\ gen' = NoGen
    /\ UNCHANGED <<model_loaded, tokenizer, model, src_lang, cache>>

\* A script run with the Translate button pressed.
Translate ==
    \E user_input \in Texts, source_lang \in LangChoices,
       target_lang \in LangChoices, out \in GenOutcomes :
        LET b == TranslateBranch(model_loaded, user_input)
            r == translate_text(user_input, source_lang, target_lang,
                                tokenizer, model, src_lang, out)
            stored == b = "call" /\ Truthy(r.ret)
            msgs == IF stored
                    THEN StoreExchange(messages, source_lang, target_lang,
                                       user_input, r.ret.val)
                    ELSE messages
            outcome == IF b # "call" THEN b
                       ELSE IF r.error THEN "translation_error"
                       ELSE IF stored THEN "ok"
                       ELSE "nothing"
        IN  /\ Len(msgs) <= MaxHistory
            /\ messages' = msgs
            /\ src_lang' = IF b = "call" THEN r.src_lang ELSE src_lang
            /\ last' = Shown("translate", outcome, NoLoader, FALSE)
            /\ req' = [text |-> user_input, source |-> source_lang,
                       target |-> target_lang]
            /\ gen' = IF b = "call" THEN r.gen ELSE NoGen
            /\ UNCHANGED <<model_loaded, tokenizer, model, cache>>

\* The entry of load_model() is dropped ("Clear cache" of the app menu).
ClearCache ==
    /\ cache.hit
    /\ cache' = NoEntry
    /\ last' = Shown("clear_cache", "none", NoLoader, FALSE)
    /\ req' = NoReq
    /\ gen' = NoGen
    /\ UNCHANGED <<messages, model_loaded, tokenizer, model, src_lang>>

Next == Load \/ Clear \/ Translate \/ ClearCache

Spec == Init /\ [][Next]_vars

----------------------------------------------------------------------------
(* translate_text called on its own with arbitrary language names *)

AllNames == { LanguageKeys[i] : i \in DOMAIN LanguageKeys } \cup UnknownNames

\* The session after a successful load, with the arguments of a call of
\* translate_text about to be made.
InitLoaded ==
    /\ messages = <<>>
    /\ model_loaded = TRUE
    /\ tokenizer = "tokenizer"
    /\ model = "model"
    /\ src_lang = FreshSrcLang
    /\ cache = [hit |-> TRUE, value |-> <<"tokenizer", "model">>]
    /\ last = Shown("call_pending", "none", NoLoader, FALSE)
    /\ req \in [text : Texts, source : AllNames, target : AllNames]
    /\ gen = NoGen

\* The call translate_text(text, source_lang, target_lang, tokenizer, model).
CallTranslateText ==
    /\ last.op = "call_pending"
    /\ \E out \in GenOutcomes :
        LET r == translate_text(req.text, req.source, req.target,
                                tokenizer, model, src_lang, out)
        IN  /\ src_lang' = r.src_lang
            /\ last' = Shown("translate_text",
                             IF r.error THEN "translation_error"
                             ELSE "returned", NoLoader, FALSE)
            /\ gen' = r.gen
            /\ UNCHANGED <<messages, model_loaded, tokenizer, model, cache, req>>

NextLang == CallTranslateText

SpecLang == InitLoaded /\ [][NextLang]_vars

----------------------------------------------------------------------------
(* Properties *)

AllWhitespace(t) == \A i \in 1..Len(t) : t[i] \in Whitespace

NonBlank(t) == \E i \in 1..Len(t) : t[i] \notin Whitespace

IsPrefix(a, b) == Len(a) <= Len(b) /\ SubSeq(b, 1, Len(a)) = a

Exchange(r, v) ==
    [source |-> r.source, target |-> r.target, original |-> r.text,
     translation |-> v]

IsKey(n) == \E i \in DOMAIN LANGUAGES : LANGUAGES[i][1] = n

Registered(n) == LANGUAGES[CHOOSE i \in DOMAIN LANGUAGES : LANGUAGES[i][1] = n][2]

\* C1: a Translate run in the Loaded session with non-blank text whose
\* generation call returns a string without raising, whatever the string,
\* appends exactly the exchange {source, target, original, translation} at
\* the end of the history.
C1_SuccessAppendsOne ==
    [][ (last'.op = "translate" /\ model_loaded /\ NonBlank(req'.text)
            /\ gen'.calls = 1 /\ ~gen'.raised)
        => messages' = Append(messages, Exchange(req', gen'.value)) ]_vars

\* C2: a Translate run in the Unloaded session, whatever the text and the
\* languages, shows the not-ready error, makes no generation call and leaves
\* the history and the backend as they were.
C2_UnloadedNotReady ==
    [][ (last'.op = "translate" /\ ~model_loaded)
        => /\ last'.outcome = "not_ready"
           /\ gen'.calls = 0
           /\ messages' = messages
           /\ backend' = backend ]_vars

C2_Witness ==
    /\ last.op = "translate"
    /\ last.outcome = "not_ready"
    /\ ~model_loaded
    /\ NonBlank(req.text)
    /\ cache.hit

\* C3: a Translate run in the Loaded session with empty or whitespace-only
\* text shows the empty-input error, makes no generation call and leaves the
\* history and the backend as they were.
C3_BlankRejected ==
    [][ (last'.op = "translate" /\ model_loaded /\ AllWhitespace(req'.text))
        => /\ last'.outcome = "empty_input"
           /\ gen'.calls = 0
           /\ messages' = messages
           /\ backend' = backend ]_vars

C3_Witness ==
    /\ last.op = "translate"
    /\ last.outcome = "empty_input"
    /\ model_loaded
    /\ req.text = <<" ", "\n">>
    /\ Len(messages) > 0

\* C4: a Translate run in the Loaded session whose generation call raises
\* shows the translation error, leaves the history as it was, leaves the
\* session Loaded with the same handles, and made exactly one generation call.
C4_GeneratorErrorNoAppend ==
    [][ (last'.op = "translate" /\ model_loaded /\ gen'.raised)
        => /\ last'.outcome = "translation_error"
           /\ messages' = messages
           /\ model_loaded' /\ tokenizer' = tokenizer /\ model' = model
           /\ gen'.calls = 1 ]_vars

C4_Witness ==
    /\ last.op = "translate"
    /\ last.outcome = "translation_error"
    /\ gen.raised
    /\ Len(messages) = 1

\* C5: the Clear run is possible in every state, leaves the history empty and
\* leaves the loaded flag, the tokenizer and the model as they were.
C5_ClearEmptiesOnly ==
    /\ [](ENABLED Clear)
    /\ [][ last'.op = "clear"
           => messages' = <<>> /\ backend' = backend ]_vars

C5_Witness ==
    /\ last.op = "clear"
    /\ messages = <<>>
    /\ model_loaded
    /\ tokenizer # None

\* C6: a Load run that fails leaves the history, the flag and the handles as
\* they were; from Unloaded no tokenizer and no model is stored.
C6_FailedLoadKeepsState ==
    [][ (last'.op = "load" /\ last'.outcome = "load_failed")
        => /\ messages' = messages
           /\ backend' = backend
           /\ (~model_loaded
                 => ~model_loaded' /\ tokenizer' = None /\ model' = None) ]_vars

C6_Witness ==
    /\ last.op = "load"
    /\ last.outcome = "load_failed"
    /\ model_loaded
    /\ tokenizer = "tokenizer"
    /\ Len(messages) > 0

\* C7: a Load run in the Unloaded session, issued when the loader can
\* deliver both objects, runs the loader and brings the session to Loaded,
\* also after an earlier Load run failed.
C7_RetryLoads ==
    [][ (last'.op = "load" /\ ~model_loaded /\ last'.loaderOK)
        => last'.loaderRan /\ model_loaded' ]_vars

\* C8: every run other than Clear leaves the previous history as a prefix of
\* the new one, and Clear leaves it empty.
C8_AppendOnly ==
    [][ /\ (last'.op # "clear" => IsPrefix(messages, messages'))
        /\ (last'.op = "clear" => messages' = <<>>) ]_vars

C8_Witness ==
    /\ last.op = "translate"
    /\ Len(messages) = 2
    /\ messages[1] # messages[2]

\* C9: translate_text, for any source and target name, makes the generation
\* call with the registered code of a name of the catalog and with eng_Latn
\* (source) or spa_Latn (target) for any other name, and fails only when the
\* generation call itself raises.
C9_CodeResolution ==
    last.op = "translate_text"
    => /\ gen.calls = 1
       /\ gen.src_lang =
            (IF IsKey(req.source) THEN Registered(req.source) ELSE "eng_Latn")
       /\ gen.forced_bos =
            (IF IsKey(req.target) THEN Registered(req.target) ELSE "spa_Latn")
       /\ src_lang = gen.src_lang
       /\ (last.outcome = "translation_error" <=> gen.raised)

C9_Witness ==
    /\ last.op = "translate_text"
    /\ req.source \in UnknownNames
    /\ req.target \in UnknownNames
    /\ last.outcome = "returned"
    /\ gen.src_lang = "eng_Latn"
    /\ gen.forced_bos = "spa_Latn"

\* C10: the loaded flag is true exactly when a tokenizer and a model are
\* stored, a generation call is never made with a missing handle, and no step
\* sets a true flag back to false.
C10_FlagMatchesHandles ==
    /\ [](/\ model_loaded <=> (tokenizer # None /\ model # None)
          /\ gen.calls > 0 => (gen.tokenizer # None /\ gen.model # None))
    /\ [][ model_loaded => model_loaded' ]_vars

C10_Witness ==
    /\ model_loaded
    /\ cache.hit
    /\ cache.value = <<None, None>>
    /\ gen.calls = 1
    /\ gen.tokenizer = "tokenizer"

====
